---- MODULE Spec2Model ----
(***************************************************************************)
(* Model of DevToolsPlugin (rxjs-spy): the batching of broadcasts towards  *)
(* the devtools connection, the overload policy, the request handling of    *)
(* the responses_ pipeline and the plugin records.                          *)
(***************************************************************************)
EXTENDS Integers, Sequences, FiniteSets, TLC

\* ---------------------------------------------------------------- bounds
\* Threshold of the overload policy (imported from ../devtools/constants).
BATCH_NOTIFICATIONS == 1
\* Events of the environment in one run: a lifecycle notification and a stats
\* emission of a deck that a notification reached count 1, a post of the remote
\* side counts 2.
MaxEvents == 6

\* ---------------------------------------------------------------- inputs
Undefined == "undefined"
PluginIds == {"p1", "p2"}
\* postId of the requests that create no plugin
PostIds == {"q"}
SpyIds == {"s1", "s2"}
DeckCommands == {"clear", "pause", "resume", "skip", "step"}
Commands == DeckCommands \cup {"inspect", "bogus"}
Values == {Undefined, "a"}
Errors == {"e"}

\* batchTimeoutId_ === undefined
NoTimer == 0

VARIABLES
    batchQueue_,      \* Message[]
    batchTimeoutId_,  \* NoTimer or the id setTimeout returned
    connection_,      \* Undefined or "connected"
    plugins_,         \* Map<string, PluginRecord>
    snapshotHinted_,  \* boolean
    subscription_,    \* state of the responses_ subscription
    timers,           \* ids of the timeouts pending in the event loop
    spyPlugins,       \* plugin instances the host created, and the spy's view
    tick,             \* spy_.tick
    identified,       \* number of ids identify({}) has handed out
    received,         \* posts the remote side has sent
    posted,           \* what the last step gave to connection_.post
    tornDown,         \* teardown() has been called
    burst,            \* notifications batched since the window was closed and unhinted
    recovery,         \* "cleared" once a snapshot request cleared the flag, until
                      \* the next notification, which makes it "resumed"
    windowStats,      \* per stats id, the deck-stats given to batchMessage_ since
                      \* the last window opened
    statsEmitted      \* stats emissions decks made on their own

vars == <<batchQueue_, batchTimeoutId_, connection_, plugins_, snapshotHinted_,
          subscription_, timers, spyPlugins, tick, identified,
          received, posted, tornDown, burst, recovery, windowStats,
          statsEmitted>>

\* ---------------------------------------------------------------- helpers
IsNotification(message) == message.broadcastType = "notification"
IsDeckStats(message) == message.broadcastType = "deck-stats"
IsSnapshotHint(message) == message.broadcastType = "snapshot-hint"

NotificationCount(queue) == Len(SelectSeq(queue, IsNotification))
SnapshotHintCount(queue) == Len(SelectSeq(queue, IsSnapshotHint))

\* stringify(value, null, null, true) of circular-json, on the modelled values
stringify(value) == "\"" \o value \o "\""

toValue(value) == [json |-> stringify(value)]

\* An optional field that holds a record: absent, or the record.
Absent == <<>>
Present(value) == <<value>>

toStats(id, stats) == stats @@ [id |-> id]

\* The fields the batching methods read and write.
This ==
    [batchQueue_ |-> batchQueue_, batchTimeoutId_ |-> batchTimeoutId_,
     snapshotHinted_ |-> snapshotHinted_, timers |-> timers,
     identified |-> identified, windowStats |-> windowStats]

NoStats == [id \in SpyIds |-> <<>>]

\* The id setTimeout returns: one no pending timeout has and batchTimeoutId_
\* does not hold.
setTimeout(this) ==
    CHOOSE id \in 1..(Cardinality(this.timers) + 2) :
        /\ id \notin this.timers \cup {this.batchTimeoutId_}
        /\ \A other \in 1..(id - 1) : other \in this.timers \cup {this.batchTimeoutId_}

\* batchMessage_ without the test of batchTimeoutId_: every message arms a timer.
batchMessage_Rearm(this, message) ==
    [this EXCEPT !.batchQueue_ = Append(@, message),
                 !.batchTimeoutId_ = setTimeout(this),
                 !.timers = @ \cup {setTimeout(this)}]

\* batchMessage_ that enqueues without arming the timer.
batchMessage_Unarmed(this, message) ==
    [this EXCEPT !.batchQueue_ = Append(@, message)]

batchMessage_(this, message) ==
    IF this.batchTimeoutId_ # NoTimer
    THEN [this EXCEPT !.batchQueue_ = Append(@, message)]
    ELSE [this EXCEPT !.batchQueue_ = <<message>>,
                      !.batchTimeoutId_ = setTimeout(this),
                      !.timers = @ \cup {setTimeout(this)},
                      !.windowStats = NoStats]

DeckStatsBroadcast(stats) ==
    [broadcastType |-> "deck-stats", messageType |-> "broadcast", stats |-> stats]

\* batchDeckStats_ without the filter of the queued stats of the same id.
batchDeckStats_NoDedup(this, stats) ==
    [batchMessage_(this, DeckStatsBroadcast(stats))
        EXCEPT !.windowStats[stats.id] = Append(@, DeckStatsBroadcast(stats))]

batchDeckStats_(this, stats) ==
    LET Keep(message) == (~IsDeckStats(message)) \/ (message.stats.id # stats.id)
        sent == batchMessage_([this EXCEPT !.batchQueue_ = SelectSeq(@, Keep)],
                              DeckStatsBroadcast(stats))
    IN  [sent EXCEPT !.windowStats[stats.id] = Append(@, DeckStatsBroadcast(stats))]

toNotification_(this, ref) ==
    [id |-> this.identified + 1,
     error |-> ref.error,
     tick |-> tick,
     type |-> ref.prefix \o "-" \o ref.notification,
     value |-> IF ref.value = Undefined THEN Absent ELSE Present(toValue(ref.value))]

\* batchNotification_ with the threshold one later.
batchNotification_Late(this, ref) ==
    IF connection_ = Undefined THEN this
    ELSE IF this.snapshotHinted_ THEN this
    ELSE IF NotificationCount(this.batchQueue_) > BATCH_NOTIFICATIONS + 1
    THEN LET kept == [this EXCEPT !.batchQueue_ =
                         SelectSeq(@, LAMBDA m : ~IsNotification(m))]
             sent == batchMessage_(kept, [broadcastType |-> "snapshot-hint",
                                          messageType |-> "broadcast"])
         IN  [sent EXCEPT !.snapshotHinted_ = TRUE]
    ELSE LET sent == batchMessage_(this, [broadcastType |-> "notification",
                                          messageType |-> "broadcast",
                                          notification |-> toNotification_(this, ref)])
         IN  [sent EXCEPT !.identified = @ + 1]

\* batchNotification_ without the early return on snapshotHinted_.
batchNotification_Unsuppressed(this, ref) ==
    IF connection_ = Undefined THEN this
    ELSE IF NotificationCount(this.batchQueue_) > BATCH_NOTIFICATIONS
    THEN LET kept == [this EXCEPT !.batchQueue_ =
                         SelectSeq(@, LAMBDA m : ~IsNotification(m))]
             sent == batchMessage_(kept, [broadcastType |-> "snapshot-hint",
                                          messageType |-> "broadcast"])
         IN  [sent EXCEPT !.snapshotHinted_ = TRUE]
    ELSE LET sent == batchMessage_(this, [broadcastType |-> "notification",
                                          messageType |-> "broadcast",
                                          notification |-> toNotification_(this, ref)])
         IN  [sent EXCEPT !.identified = @ + 1]

\* batchNotification_ whose collapse leaves the queued notifications in place.
batchNotification_Unfiltered(this, ref) ==
    IF connection_ = Undefined THEN this
    ELSE IF this.snapshotHinted_ THEN this
    ELSE IF NotificationCount(this.batchQueue_) > BATCH_NOTIFICATIONS
    THEN LET sent == batchMessage_(this, [broadcastType |-> "snapshot-hint",
                                          messageType |-> "broadcast"])
         IN  [sent EXCEPT !.snapshotHinted_ = TRUE]
    ELSE LET sent == batchMessage_(this, [broadcastType |-> "notification",
                                          messageType |-> "broadcast",
                                          notification |-> toNotification_(this, ref)])
         IN  [sent EXCEPT !.identified = @ + 1]

batchNotification_(this, ref) ==
    IF connection_ = Undefined THEN this
    ELSE IF this.snapshotHinted_ THEN this
    ELSE IF NotificationCount(this.batchQueue_) > BATCH_NOTIFICATIONS
    THEN LET kept == [this EXCEPT !.batchQueue_ =
                         SelectSeq(@, LAMBDA m : ~IsNotification(m))]
             sent == batchMessage_(kept, [broadcastType |-> "snapshot-hint",
                                          messageType |-> "broadcast"])
         IN  [sent EXCEPT !.snapshotHinted_ = TRUE]
    ELSE LET sent == batchMessage_(this, [broadcastType |-> "notification",
                                          messageType |-> "broadcast",
                                          notification |-> toNotification_(this, ref)])
         IN  [sent EXCEPT !.identified = @ + 1]

\* Writes the fields of This back.
Commit(this) ==
    /\ batchQueue_' = this.batchQueue_
    /\ batchTimeoutId_' = this.batchTimeoutId_
    /\ snapshotHinted_' = this.snapshotHinted_
    /\ timers' = this.timers
    /\ identified' = this.identified
    /\ windowStats' = this.windowStats

\* burst after a step: 0 in a state whose window is closed and unhinted on a live
\* connection, -1 where the window closed while hinted, else the notifications
\* batched since.
\* recovery after a step: see the variable.
History(notified) ==
    /\ burst' = IF connection_' # Undefined /\ batchTimeoutId_' = NoTimer
                THEN (IF snapshotHinted_' THEN -1 ELSE 0)
                ELSE IF notified /\ connection_ # Undefined /\ burst >= 0
                THEN burst + 1
                ELSE burst
    /\ recovery' = IF snapshotHinted_ /\ ~snapshotHinted_' THEN "cleared"
                   ELSE IF notified
                   THEN (IF recovery = "cleared" /\ connection_ # Undefined
                         THEN "resumed" ELSE "none")
                   ELSE IF recovery = "cleared" THEN "cleared" ELSE "none"

\* The environment has events left in this run.
Budget(cost) == tick + 2 * received + statsEmitted + cost <= MaxEvents

\* ---------------------------------------------------------------- Init
NoPost == [messageType |-> "none"]

Init ==
    /\ batchQueue_ = <<>>
    /\ batchTimeoutId_ = NoTimer
    /\ connection_ \in {Undefined, "connected"}
    /\ subscription_ = IF connection_ = Undefined THEN Undefined ELSE "subscribed"
    /\ plugins_ = [p \in {} |-> Undefined]
    /\ snapshotHinted_ = FALSE
    /\ timers = {}
    /\ spyPlugins = <<>>
    /\ tick = 0
    /\ identified = 0
    /\ received = 0
    /\ posted = NoPost
    /\ tornDown = FALSE
    /\ burst = IF connection_ = Undefined THEN -1 ELSE 0
    /\ recovery = "none"
    /\ windowStats = NoStats
    /\ statsEmitted = 0

\* ---------------------------------------------------------------- lifecycle
Notify(ref) ==
    /\ Budget(1)
    /\ tick' = tick + 1
    /\ Commit(batchNotification_(This, ref))
    /\ posted' = NoPost
    /\ UNCHANGED <<connection_, plugins_, subscription_, spyPlugins, received, tornDown, statsEmitted>>
    /\ History(TRUE)

afterSubscribe ==
    Notify([notification |-> "subscribe", prefix |-> "after",
            error |-> Undefined, value |-> Undefined])

afterUnsubscribe ==
    Notify([notification |-> "unsubscribe", prefix |-> "after",
            error |-> Undefined, value |-> Undefined])

beforeComplete ==
    Notify([notification |-> "complete", prefix |-> "before",
            error |-> Undefined, value |-> Undefined])

beforeError ==
    \E error \in Errors :
        Notify([notification |-> "error", prefix |-> "before",
                error |-> error, value |-> Undefined])

beforeNext ==
    \E value \in Values :
        Notify([notification |-> "next", prefix |-> "before",
                error |-> Undefined, value |-> value])

beforeSubscribe ==
    Notify([notification |-> "subscribe", prefix |-> "before",
            error |-> Undefined, value |-> Undefined])

beforeUnsubscribe ==
    Notify([notification |-> "unsubscribe", prefix |-> "before",
            error |-> Undefined, value |-> Undefined])

\* teardown that cancels the timer but keeps the connection and the subscription.
teardown_KeepsConnection ==
    /\ tornDown' = TRUE
    /\ IF batchTimeoutId_ # NoTimer
       THEN /\ timers' = timers \ {batchTimeoutId_}
            /\ batchTimeoutId_' = NoTimer
       ELSE UNCHANGED <<timers, batchTimeoutId_>>
    /\ posted' = NoPost
    /\ UNCHANGED <<connection_, subscription_, batchQueue_, plugins_, snapshotHinted_,
                   spyPlugins, tick, identified, received, windowStats, statsEmitted>>
    /\ History(FALSE)

\* ---------------------------------------------------------------- teardown
teardown ==
    /\ tornDown' = TRUE
    /\ IF batchTimeoutId_ # NoTimer
       THEN /\ timers' = timers \ {batchTimeoutId_}
            /\ batchTimeoutId_' = NoTimer
       ELSE UNCHANGED <<timers, batchTimeoutId_>>
    /\ IF connection_ # Undefined
       THEN /\ connection_' = Undefined
            /\ subscription_' = IF subscription_ = "subscribed" THEN "unsubscribed"
                                ELSE subscription_
       ELSE UNCHANGED <<connection_, subscription_>>
    /\ posted' = NoPost
    /\ UNCHANGED <<batchQueue_, plugins_, snapshotHinted_, spyPlugins, tick, identified,
                   received, windowStats, statsEmitted>>
    /\ History(FALSE)

\* ---------------------------------------------------------------- timer
\* The callback given to setTimeout in batchMessage_.
batchTimeout ==
    \E id \in timers :
        /\ timers' = timers \ {id}
        /\ IF connection_ # Undefined
           THEN /\ posted' = [messageType |-> "batch", messages |-> batchQueue_]
                /\ batchTimeoutId_' = NoTimer
                /\ batchQueue_' = <<>>
           ELSE /\ posted' = NoPost
                /\ UNCHANGED <<batchTimeoutId_, batchQueue_>>
        /\ UNCHANGED <<connection_, plugins_, snapshotHinted_, subscription_, spyPlugins,
                       tick, identified, received, tornDown, windowStats, statsEmitted>>
        /\ History(FALSE)

\* ---------------------------------------------------------------- plugins
\* new LogPlugin(spy, spyId) / new PausePlugin(spyId), as the spy and the host see
\* it: teardowns counts the calls of the teardown spy_.plug returned, paused and
\* ops are the deck's run-state and the deck operations invoked so far.
NewPlugin(kind, spyId) ==
    [kind |-> kind, spyId |-> spyId, teardowns |-> 0, paused |-> FALSE, ops |-> 0]

Attached(plugin) == plugin.teardowns = 0

recordPlugin_(map, plugins, spyId, pluginId, kind) ==
    LET plugin == Len(plugins) + 1
    IN  [plugins_ |-> [id \in DOMAIN map \cup {pluginId} |->
                          IF id = pluginId
                          THEN [plugin |-> plugin, pluginId |-> pluginId, spyId |-> spyId]
                          ELSE map[id]],
         spyPlugins |-> Append(plugins, NewPlugin(kind, spyId))]

\* teardownPlugin_ without plugins_.delete(pluginId).
teardownPlugin_NoDelete(map, plugins, pluginId) ==
    IF pluginId \in DOMAIN map
    THEN [plugins_ |-> map,
          spyPlugins |-> [plugins EXCEPT ![map[pluginId].plugin].teardowns = @ + 1]]
    ELSE [plugins_ |-> map, spyPlugins |-> plugins]

teardownPlugin_(map, plugins, pluginId) ==
    IF pluginId \in DOMAIN map
    THEN [plugins_ |-> [id \in DOMAIN map \ {pluginId} |-> map[id]],
          spyPlugins |-> [plugins EXCEPT ![map[pluginId].plugin].teardowns = @ + 1]]
    ELSE [plugins_ |-> map, spyPlugins |-> plugins]

\* deck[command](): the run-state after the operation.
DeckOperation(deck, command) ==
    [deck EXCEPT !.paused = CASE command = "pause" -> TRUE
                              [] command = "resume" -> FALSE
                              [] OTHER -> @,
                 !.ops = @ + 1]

\* The DeckStats a deck emits on deck.stats.
DeckStatsOf(plugin, deck) == [deck |-> plugin, paused |-> deck.paused]

\* ---------------------------------------------------------------- requests
Response(request) ==
    [messageType |-> "response", request |-> request, error |-> Undefined,
     pluginId |-> Undefined, snapshot |-> Absent]

Request(requestType, postId, spyId, pluginId, command) ==
    [requestType |-> requestType, postId |-> postId, spyId |-> spyId,
     pluginId |-> pluginId, command |-> command]

toSnapshot(snapshot) == [tick |-> snapshot.tick]

\* A post of the remote side reaches the responses_ pipeline only while the
\* subscription to the connection stands.
Receive(Handle) ==
    /\ Budget(2)
    /\ received' = received + 1
    /\ UNCHANGED <<connection_, tick, tornDown, statsEmitted>>
    /\ IF subscription_ = "subscribed"
       THEN Handle
       ELSE /\ posted' = NoPost
            /\ UNCHANGED <<batchQueue_, batchTimeoutId_, plugins_, snapshotHinted_,
                           subscription_, timers, spyPlugins, identified, windowStats>>
    /\ History(FALSE)

\* The subscriber of responses_: posts the response if connection_ is set.
Post(response) ==
    posted' = IF connection_ # Undefined THEN response ELSE NoPost

HandleCreate(request, kind) ==
    LET recorded == recordPlugin_(plugins_, spyPlugins, request.spyId, request.postId, kind)
    IN  /\ plugins_' = recorded.plugins_
        /\ spyPlugins' = recorded.spyPlugins
        /\ Post([Response(request) EXCEPT !.pluginId = request.postId])
        /\ UNCHANGED <<batchQueue_, batchTimeoutId_, snapshotHinted_, subscription_,
                       timers, identified, windowStats>>

HandleTeardown(request) ==
    LET removed == teardownPlugin_(plugins_, spyPlugins, request.pluginId)
    IN  /\ plugins_' = removed.plugins_
        /\ spyPlugins' = removed.spyPlugins
        /\ Post(Response(request))
        /\ UNCHANGED <<batchQueue_, batchTimeoutId_, snapshotHinted_, subscription_,
                       timers, identified, windowStats>>

\* The body of if (pluginRecord) in case "pause-command".
DispatchCommand(request) ==
         LET pluginRecord == plugins_[request.pluginId]
             plugin == spyPlugins[pluginRecord.plugin]
         IN  IF request.command \in DeckCommands
             THEN IF plugin.kind = "pause"
                  THEN LET deck == DeckOperation(plugin, request.command)
                       IN  /\ spyPlugins' = [spyPlugins EXCEPT ![pluginRecord.plugin] = deck]
                           /\ Commit(batchDeckStats_(This,
                                  toStats(plugin.spyId, DeckStatsOf(pluginRecord.plugin, deck))))
                           /\ Post(Response(request))
                           /\ UNCHANGED <<plugins_, subscription_>>
                  \* a LogPlugin has no deck: deck[command]() throws a TypeError, which
                  \* ends the responses_ subscription with an error
                  ELSE /\ subscription_' = "errored"
                       /\ posted' = NoPost
                       /\ UNCHANGED <<batchQueue_, batchTimeoutId_, plugins_,
                                      snapshotHinted_, timers, spyPlugins, identified,
                                      windowStats>>
             ELSE /\ Post([Response(request) EXCEPT !.error =
                              IF request.command = "inspect" THEN "Not implemented."
                              ELSE "Unexpected command."])
                  /\ UNCHANGED <<batchQueue_, batchTimeoutId_, plugins_, snapshotHinted_,
                                 subscription_, timers, spyPlugins, identified, windowStats>>

\* case "pause-command" that answers an unknown pluginId with an error.
HandlePauseCommand_Strict(request) ==
    IF request.pluginId \notin DOMAIN plugins_
    THEN /\ Post([Response(request) EXCEPT !.error = "Cannot find plugin."])
         /\ UNCHANGED <<batchQueue_, batchTimeoutId_, plugins_, snapshotHinted_,
                        subscription_, timers, spyPlugins, identified, windowStats>>
    ELSE DispatchCommand(request)

HandlePauseCommand(request) ==
    IF request.pluginId \notin DOMAIN plugins_
    THEN /\ Post(Response(request))
         /\ UNCHANGED <<batchQueue_, batchTimeoutId_, plugins_, snapshotHinted_,
                        subscription_, timers, spyPlugins, identified, windowStats>>
    ELSE DispatchCommand(request)

HandleSnapshot(request, snapshotPlugin) ==
    /\ snapshotHinted_' = FALSE
    /\ Post(IF snapshotPlugin
            THEN [Response(request) EXCEPT !.snapshot = Present(toSnapshot([tick |-> tick]))]
            ELSE [Response(request) EXCEPT !.error = "Cannot find snapshot plugin."])
    /\ UNCHANGED <<batchQueue_, batchTimeoutId_, plugins_, subscription_, timers,
                   spyPlugins, identified, windowStats>>

HandleUnexpected(request) ==
    /\ Post([Response(request) EXCEPT !.error = "Unexpected request."])
    /\ UNCHANGED <<batchQueue_, batchTimeoutId_, plugins_, snapshotHinted_,
                   subscription_, timers, spyPlugins, identified, windowStats>>

requestLog ==
    \E postId \in PluginIds, spyId \in SpyIds :
        Receive(HandleCreate(Request("log", postId, spyId, Undefined, Undefined), "log"))

requestLogTeardown ==
    \E postId \in PostIds, pluginId \in PluginIds :
        Receive(HandleTeardown(Request("log-teardown", postId, Undefined, pluginId, Undefined)))

requestPause ==
    \E postId \in PluginIds, spyId \in SpyIds :
        Receive(HandleCreate(Request("pause", postId, spyId, Undefined, Undefined), "pause"))

requestPauseCommand ==
    \E postId \in PostIds, pluginId \in PluginIds, command \in Commands :
        Receive(HandlePauseCommand(Request("pause-command", postId, Undefined, pluginId, command)))

requestPauseTeardown ==
    \E postId \in PostIds, pluginId \in PluginIds :
        Receive(HandleTeardown(Request("pause-teardown", postId, Undefined, pluginId, Undefined)))

\* snapshotPlugin: whether spy_.find(SnapshotPlugin) finds a plugin at this moment.
requestSnapshot ==
    \E postId \in PostIds, snapshotPlugin \in BOOLEAN :
        Receive(HandleSnapshot(Request("snapshot", postId, Undefined, Undefined, Undefined),
                               snapshotPlugin))

requestUnexpected ==
    \E postId \in PostIds :
        Receive(HandleUnexpected(Request("bogus", postId, Undefined, Undefined, Undefined)))

\* A post that is no request: filter(isPostRequest) drops it.
postOther ==
    Receive(/\ posted' = NoPost
            /\ UNCHANGED <<batchQueue_, batchTimeoutId_, plugins_, snapshotHinted_,
                           subscription_, timers, spyPlugins, identified, windowStats>>)

\* ---------------------------------------------------------------- deck stats
\* A notification reaches the deck of an attached PausePlugin, and the deck emits
\* its stats to the subscriber the "pause" request set up.
deckStats ==
    \E plugin \in DOMAIN spyPlugins :
        /\ spyPlugins[plugin].kind = "pause"
        /\ Attached(spyPlugins[plugin])
        /\ Budget(1)
        /\ statsEmitted' = statsEmitted + 1
        /\ Commit(batchDeckStats_(This,
               toStats(spyPlugins[plugin].spyId, DeckStatsOf(plugin, spyPlugins[plugin]))))
        /\ posted' = NoPost
        /\ UNCHANGED <<connection_, plugins_, subscription_, spyPlugins, tick, received, tornDown>>
        /\ History(FALSE)

Next ==
    \/ afterSubscribe
    \/ afterUnsubscribe
    \/ beforeComplete
    \/ beforeError
    \/ beforeNext
    \/ beforeSubscribe
    \/ beforeUnsubscribe
    \/ teardown
    \/ batchTimeout
    \/ requestLog
    \/ requestLogTeardown
    \/ requestPause
    \/ requestPauseCommand
    \/ requestPauseTeardown
    \/ requestSnapshot
    \/ requestUnexpected
    \/ postOther
    \/ deckStats

Spec == Init /\ [][Next]_vars

\* The event loop runs the callback of every timeout that stays pending.
FairSpec == Spec /\ WF_vars(batchTimeout)

\* ================================================================ properties
RECURSIVE IsSubsequence(_, _)
\* sub is seq with some elements left out, the rest in the same order
IsSubsequence(sub, seq) ==
    IF sub = <<>> THEN TRUE
    ELSE IF seq = <<>> THEN FALSE
    ELSE IF Head(sub) = Head(seq) THEN IsSubsequence(Tail(sub), Tail(seq))
    ELSE IsSubsequence(sub, Tail(seq))

Front(seq) == SubSeq(seq, 1, Len(seq) - 1)

IsBatch(post) == post.messageType = "batch"

IsResponseTo(post, requestTypes) ==
    post.messageType = "response" /\ post.request.requestType \in requestTypes

\* The step is a lifecycle notification: the spy's tick advanced.
Notified == tick' # tick

BatchUnchanged ==
    /\ batchQueue_' = batchQueue_
    /\ batchTimeoutId_' = batchTimeoutId_
    /\ timers' = timers
    /\ snapshotHinted_' = snapshotHinted_

StatsOf(messages, id) ==
    SelectSeq(messages, LAMBDA m : IsDeckStats(m) /\ m.stats.id = id)

\* ---------------------------------------------------------------- C1
\* C1 as stated: the (BATCH_NOTIFICATIONS + 1)-th lifecycle notification batched
\* since the window was closed with snapshotHinted_ clear leaves the queue with no
\* notification broadcast and one snapshot-hint, and sets snapshotHinted_.
C1_CollapseAtThresholdPlusOne ==
    [][(burst = BATCH_NOTIFICATIONS /\ burst' = BATCH_NOTIFICATIONS + 1)
        => /\ NotificationCount(batchQueue_') = 0
           /\ SnapshotHintCount(batchQueue_') = 1
           /\ snapshotHinted_']_vars

\* C1, amended: it is the (BATCH_NOTIFICATIONS + 2)-th lifecycle notification
\* batched since the window was closed with snapshotHinted_ clear that leaves the
\* queue with no notification broadcast and exactly one snapshot-hint, and sets
\* snapshotHinted_; up to the (BATCH_NOTIFICATIONS + 1)-th they are all queued.
C1_CollapseAtThresholdPlusTwo ==
    [][/\ (burst = BATCH_NOTIFICATIONS + 1 /\ burst' = BATCH_NOTIFICATIONS + 2)
          => /\ NotificationCount(batchQueue_') = 0
             /\ SnapshotHintCount(batchQueue_') = 1
             /\ snapshotHinted_'
       /\ (burst >= 0 /\ burst' = burst + 1 /\ burst' <= BATCH_NOTIFICATIONS + 1)
          => /\ NotificationCount(batchQueue_') = burst'
             /\ SnapshotHintCount(batchQueue_') = 0
             /\ ~snapshotHinted_']_vars

C1_Witness ==
    /\ burst = BATCH_NOTIFICATIONS + 2
    /\ snapshotHinted_
    /\ NotificationCount(batchQueue_) = 0
    /\ SnapshotHintCount(batchQueue_) = 1

\* ---------------------------------------------------------------- C2
\* C2: while snapshotHinted_ is set a lifecycle notification changes neither the
\* batch queue nor the timer; and once a snapshot request has cleared the flag,
\* the next lifecycle notification on the live connection is appended to the queue
\* as a notification broadcast.
C2_SuppressedUntilSnapshot ==
    [][/\ (snapshotHinted_ /\ Notified)
          => (batchQueue_' = batchQueue_ /\ batchTimeoutId_' = batchTimeoutId_
              /\ timers' = timers)
       /\ (snapshotHinted_ /\ IsResponseTo(posted', {"snapshot"})) => ~snapshotHinted_'
       /\ (recovery = "cleared" /\ Notified /\ connection_ # Undefined)
          => /\ batchQueue_' # <<>>
             /\ IsNotification(batchQueue_'[Len(batchQueue_')])
             /\ batchQueue_'[Len(batchQueue_')].notification.tick = tick
             /\ batchTimeoutId_' \in timers']_vars

C2_Witness ==
    /\ recovery = "resumed"
    /\ batchQueue_ # <<>>
    /\ IsNotification(batchQueue_[Len(batchQueue_)])
    /\ SnapshotHintCount(batchQueue_) = 1

\* ---------------------------------------------------------------- C3
\* C3 as stated: snapshotHinted_ goes from set to clear only in a step that
\* answers a snapshot request with a snapshot.
C3_ClearedOnlyWithSnapshot ==
    [][(snapshotHinted_ /\ ~snapshotHinted_')
        => (IsResponseTo(posted', {"snapshot"}) /\ posted'.snapshot # Absent)]_vars

\* ---------------------------------------------------------------- C4
\* C4: a posted Batch holds, for every stats id, exactly the last deck-stats
\* broadcast enqueued for that id in its window, and no other of that id.
C4_LatestDeckStats ==
    IsBatch(posted) =>
        \A id \in SpyIds :
            StatsOf(posted.messages, id) =
                IF windowStats[id] = <<>> THEN <<>>
                ELSE <<windowStats[id][Len(windowStats[id])]>>

C4_Witness ==
    /\ IsBatch(posted)
    /\ \E id \in SpyIds :
          /\ Len(windowStats[id]) = 2
          /\ windowStats[id][1] # windowStats[id][2]
          /\ StatsOf(posted.messages, id) = <<windowStats[id][2]>>

\* ---------------------------------------------------------------- C5
\* C5: on a live connection the queue is non-empty exactly while one timer is
\* armed, and that timer is the only one pending; the message enqueued with no
\* timer armed becomes the whole queue; the expiry posts the whole queue as one
\* Batch and leaves the queue empty and no timer armed; a queue is emptied only by
\* being posted (one window at a time, so Batches leave in the order the windows
\* opened); and an enqueue keeps the order of the messages it leaves in the queue
\* and puts the new one last.
C5_BatchWindows ==
    [][/\ connection_' # Undefined
          => /\ Cardinality(timers') <= 1
             /\ (batchTimeoutId_' = NoTimer) <=> (timers' = {})
             /\ (batchTimeoutId_' = NoTimer) <=> (batchQueue_' = <<>>)
             /\ batchTimeoutId_' # NoTimer => timers' = {batchTimeoutId_'}
       /\ (connection_' # Undefined /\ batchTimeoutId_ = NoTimer /\ batchQueue_' # <<>>)
          => Len(batchQueue_') = 1
       /\ (connection_' # Undefined /\ timers # {} /\ timers' = {})
          => /\ posted' = [messageType |-> "batch", messages |-> batchQueue_]
             /\ batchQueue_' = <<>>
             /\ batchTimeoutId_' = NoTimer
       /\ (connection_' # Undefined /\ batchQueue_ # <<>> /\ batchQueue_' = <<>>)
          => posted' = [messageType |-> "batch", messages |-> batchQueue_]
       /\ (connection_' # Undefined /\ batchQueue_' # batchQueue_ /\ batchQueue_' # <<>>)
          => IsSubsequence(Front(batchQueue_'), batchQueue_)
       /\ IsBatch(posted') => posted'.messages = batchQueue_]_vars

C5_Witness ==
    /\ IsBatch(posted)
    /\ Len(posted.messages) >= 3
    /\ \E i, j \in 1..Len(posted.messages) :
          i < j /\ IsDeckStats(posted.messages[i]) /\ IsNotification(posted.messages[j])
    /\ batchQueue_ = <<>>
    /\ timers = {}

\* ---------------------------------------------------------------- C6
\* C6: once teardown() has been called, no step posts a message to the connection.
C6_NoPostAfterTeardown == tornDown => posted = NoPost

\* A timer armed after teardown() has expired, the queue still holding messages.
C6_Witness ==
    /\ tornDown
    /\ batchTimeoutId_ # NoTimer
    /\ timers = {}
    /\ batchQueue_ # <<>>

\* ---------------------------------------------------------------- C7
\* C7 as stated: right after teardown() no timer is armed and the batch queue is
\* empty.
C7_TeardownEmptiesQueue ==
    [][(~tornDown /\ tornDown')
        => (batchTimeoutId_' = NoTimer /\ timers' = {} /\ batchQueue_' = <<>>)]_vars

\* ---------------------------------------------------------------- C8
\* C8: a log-teardown or pause-teardown request for a recorded id calls the
\* record's teardown once and removes the record; for an id without a record it
\* calls no teardown and changes neither the plugin map, the plugins nor the
\* batching state; the response carries no error; and no plugin's teardown is ever
\* called twice.
C8_TeardownOnce ==
    [][/\ IsResponseTo(posted', {"log-teardown", "pause-teardown"})
          => LET id == posted'.request.pluginId
             IN  /\ posted'.error = Undefined
                 /\ id \notin DOMAIN plugins_'
                 /\ IF id \in DOMAIN plugins_
                    THEN /\ DOMAIN plugins_' = DOMAIN plugins_ \ {id}
                         /\ \A other \in DOMAIN plugins_' : plugins_'[other] = plugins_[other]
                         /\ spyPlugins[plugins_[id].plugin].teardowns = 0
                         /\ spyPlugins' =
                               [spyPlugins EXCEPT ![plugins_[id].plugin].teardowns = 1]
                    ELSE /\ plugins_' = plugins_
                         /\ spyPlugins' = spyPlugins
                 /\ BatchUnchanged
                 /\ subscription_' = subscription_
       /\ \A plugin \in DOMAIN spyPlugins' : spyPlugins'[plugin].teardowns <= 1]_vars

\* A teardown request has been answered for an id whose plugin was torn down.
C8_Witness ==
    /\ IsResponseTo(posted, {"log-teardown", "pause-teardown"})
    /\ posted.request.pluginId \notin DOMAIN plugins_
    /\ \E plugin \in DOMAIN spyPlugins : spyPlugins[plugin].teardowns = 1
    /\ received >= 3

\* ---------------------------------------------------------------- C9
\* C9 as stated: every pause-command request with command inspect is answered
\* with the error "Not implemented." and changes neither a deck, the plugin map
\* nor the batching state, whatever pluginId it names.
C9_InspectAlwaysErrors ==
    [][(IsResponseTo(posted', {"pause-command"})
        /\ posted'.request.command = "inspect")
        => /\ posted'.error = "Not implemented."
           /\ spyPlugins' = spyPlugins
           /\ plugins_' = plugins_
           /\ BatchUnchanged]_vars

\* ---------------------------------------------------------------- C10
\* C10: a pause-command request with command clear, pause, resume, skip or step
\* for a pluginId without a record is answered without an error and changes
\* neither a deck, the plugin map nor the batching state.
C10_UnknownPluginNoOp ==
    [][(IsResponseTo(posted', {"pause-command"})
        /\ posted'.request.command \in DeckCommands
        /\ posted'.request.pluginId \notin DOMAIN plugins_)
        => /\ posted'.error = Undefined
           /\ spyPlugins' = spyPlugins
           /\ plugins_' = plugins_
           /\ BatchUnchanged
           /\ subscription_' = subscription_]_vars

C10_Witness ==
    /\ IsResponseTo(posted, {"pause-command"})
    /\ posted.request.command \in DeckCommands
    /\ posted.request.pluginId \notin DOMAIN plugins_
    /\ posted.error = Undefined
    /\ plugins_ # <<>>

\* ---------------------------------------------------------------- C11
\* The requests the remote side posts.
Requests ==
    {Request(requestType, postId, spyId, Undefined, Undefined) :
        requestType \in {"log", "pause"}, postId \in PluginIds, spyId \in SpyIds}
    \cup {Request(requestType, postId, Undefined, pluginId, Undefined) :
        requestType \in {"log-teardown", "pause-teardown"}, postId \in PostIds,
        pluginId \in PluginIds}
    \cup {Request("pause-command", postId, Undefined, pluginId, command) :
        postId \in PostIds, pluginId \in PluginIds, command \in Commands}
    \cup {Request(requestType, postId, Undefined, Undefined, Undefined) :
        requestType \in {"snapshot", "bogus"}, postId \in PostIds}

\* The step is the arrival of this request.
Arrives(request) ==
    \E snapshotPlugin \in BOOLEAN :
        Receive(CASE request.requestType = "log" -> HandleCreate(request, "log")
                  [] request.requestType = "pause" -> HandleCreate(request, "pause")
                  [] request.requestType \in {"log-teardown", "pause-teardown"} ->
                        HandleTeardown(request)
                  [] request.requestType = "pause-command" -> HandlePauseCommand(request)
                  [] request.requestType = "snapshot" ->
                        HandleSnapshot(request, snapshotPlugin)
                  [] OTHER -> HandleUnexpected(request))

\* C11 as stated: every request that arrives while the connection is live is
\* answered in that step by a Response that carries it, and leaves the
\* subscription of the request pipeline standing, so that later requests are
\* answered too.
C11_EveryRequestAnswered ==
    [][\A request \in Requests :
          (connection_ # Undefined /\ Arrives(request))
          => /\ posted'.messageType = "response"
             /\ posted'.request = request
             /\ subscription_' = "subscribed"]_vars

\* ---------------------------------------------------------------- C12
\* C12 as stated: the plugin map starts empty; a step adds the record of p exactly
\* when it answers a log or pause request with pluginId p, removes the record of p
\* exactly when it handles a log-teardown or pause-teardown request for p, and
\* leaves the map alone otherwise; and once teardown() has been called the map is
\* empty.
C12_MapFollowsRequests ==
    [][/\ tornDown' => DOMAIN plugins_' = {}
       /\ ~tornDown' =>
             DOMAIN plugins_' =
                IF IsResponseTo(posted', {"log", "pause"})
                THEN DOMAIN plugins_ \cup {posted'.pluginId}
                ELSE IF IsResponseTo(posted', {"log-teardown", "pause-teardown"})
                THEN DOMAIN plugins_ \ {posted'.request.pluginId}
                ELSE DOMAIN plugins_]_vars

\* ---------------------------------------------------------------- C13
Range(seq) == {seq[i] : i \in DOMAIN seq}

Last(seq) == seq[Len(seq)]

\* C13: as long as teardown() has not been called, a message leaves the batch
\* queue only inside the Batch posted at the expiry of its window, or as a
\* notification dropped by the overload collapse, or as a deck-stats replaced by
\* a newer one of the same id; the expiry of the timer posts the whole queue and
\* leaves it empty; and, the timer being fair, a non-empty queue is eventually
\* posted as a Batch.
C13_QueuedEventuallyPosted ==
    /\ [][~tornDown' =>
            /\ \A message \in Range(batchQueue_) :
                  \/ message \in Range(batchQueue_')
                  \/ IsBatch(posted') /\ message \in Range(posted'.messages)
                  \/ /\ IsNotification(message)
                     /\ ~snapshotHinted_ /\ snapshotHinted_'
                     /\ IsSnapshotHint(Last(batchQueue_'))
                  \/ /\ IsDeckStats(message)
                     /\ IsDeckStats(Last(batchQueue_'))
                     /\ Last(batchQueue_').stats.id = message.stats.id
            /\ (timers' # timers /\ timers' \subseteq timers)
                  => /\ posted' = [messageType |-> "batch", messages |-> batchQueue_]
                     /\ batchQueue_' = <<>>]_vars
    /\ (batchQueue_ # <<>> /\ ~tornDown) ~> (IsBatch(posted) \/ tornDown)

\* A Batch that carries a snapshot-hint and a deck-stats has been posted.
C13_Witness ==
    /\ ~tornDown
    /\ IsBatch(posted)
    /\ SnapshotHintCount(posted.messages) = 1
    /\ \E message \in Range(posted.messages) : IsDeckStats(message)
    /\ batchQueue_ = <<>>

\* ---------------------------------------------------------------- C14
\* C14 as stated: the payload of a queued notification carries a value exactly
\* when its type is before-next or before-error.
C14_ValueForNextAndError ==
    \A message \in Range(batchQueue_) :
        IsNotification(message) =>
            ((message.notification.value # Absent)
                <=> (message.notification.type \in {"before-next", "before-error"}))

\* ---------------------------------------------------------------- C17
\* C17: the batch queue never holds more than BATCH_NOTIFICATIONS + 1
\* notification broadcasts, and holds none while snapshotHinted_ is set.
C17_BoundedNotifications ==
    /\ NotificationCount(batchQueue_) <= BATCH_NOTIFICATIONS + 1
    /\ snapshotHinted_ => NotificationCount(batchQueue_) = 0

\* The bound is reached, after an earlier notification has left the queue, in a
\* queue that also holds a deck-stats.
C17_Witness ==
    /\ NotificationCount(batchQueue_) = BATCH_NOTIFICATIONS + 1
    /\ \E message \in Range(batchQueue_) : IsDeckStats(message)
    /\ ~snapshotHinted_
    /\ tick > BATCH_NOTIFICATIONS + 1

\* ---------------------------------------------------------------- C18
\* C18 as stated: once teardown() has been called, no step arms the batch timer
\* and no step puts a message into the batch queue.
C18_QuietAfterTeardown ==
    [][tornDown =>
          /\ batchTimeoutId_' = NoTimer
          /\ timers' \subseteq timers
          /\ Range(batchQueue_') \subseteq Range(batchQueue_)
          /\ Len(batchQueue_') <= Len(batchQueue_)]_vars

\* ---------------------------------------------------------------- C19
\* C19 as stated: every plugin the host plugged into the spy for a log or pause
\* request and has not torn down is the plugin of a record of the plugin map.
C19_AttachedPluginsRecorded ==
    \A plugin \in DOMAIN spyPlugins :
        Attached(spyPlugins[plugin])
            => \E pluginId \in DOMAIN plugins_ : plugins_[pluginId].plugin = plugin

\* ---------------------------------------------------------------- C20
\* C20 as stated: a deck-stats broadcast leaves the batch queue only inside a
\* posted Batch or when a deck-stats of the same deck is enqueued after it.
C20_DedupPerDeck ==
    [][\A message \in Range(batchQueue_) :
          (/\ IsDeckStats(message)
           /\ message \notin Range(batchQueue_')
           /\ ~(IsBatch(posted') /\ message \in Range(posted'.messages)))
          => /\ batchQueue_' # <<>>
             /\ IsDeckStats(Last(batchQueue_'))
             /\ Last(batchQueue_').stats.deck = message.stats.deck]_vars
====
